---- MODULE Spec2Model ----
(***************************************************************************)
(* Chicago Crime dashboard (Exercise 5, solution/streamlit-app.py).        *)
(*                                                                         *)
(* The script is re-executed from top to bottom on every user interaction. *)
(* The state is the cached table, the widget values the session keeps      *)
(* between runs, and what the last run put on the page.  One action is one *)
(* interaction followed by the whole run it triggers.                      *)
(***************************************************************************)
EXTENDS Integers, Sequences, FiniteSets, TLC

(***************************************************************************)
(* Bounds of the model.                                                    *)
(***************************************************************************)
\* longest dataset.csv with every expected column, drawn row by row
MaxRows == 2
\* longest dataset.csv that lacks one of the expected columns
MaxRowsAbsent == 1
\* number of times a block of rows is repeated to build a long dataset.csv
BigReps == 334

(***************************************************************************)
(* Cell values.  pandas marks a missing cell NaN; numeric columns and      *)
(* object columns are kept apart so that a number is compared to numbers.  *)
(***************************************************************************)
NaN == "NaN"
NaNNum == -999
True == "True"
False == "False"

AllColumns ==
  {"Date", "Year", "Primary Type", "Location Description", "Arrest",
   "Latitude", "Longitude", "Description"}

(***************************************************************************)
(* Rows of dataset.csv as read_csv delivers them: Year still text.         *)
(***************************************************************************)
RowA == [Year |-> "2001", PrimaryType |-> "THEFT", LocationDescription |-> "STREET",
         Arrest |-> True, Latitude |-> 41, Longitude |-> -87]
RowB == [Year |-> "2002", PrimaryType |-> "THEFT", LocationDescription |-> "STREET",
         Arrest |-> False, Latitude |-> 41, Longitude |-> -87]
RowC == [Year |-> "2002", PrimaryType |-> "BATTERY", LocationDescription |-> NaN,
         Arrest |-> True, Latitude |-> NaNNum, Longitude |-> -87]
RowD == [Year |-> "n/a", PrimaryType |-> NaN, LocationDescription |-> "ALLEY",
         Arrest |-> NaN, Latitude |-> 41, Longitude |-> NaNNum]
RowPool == {RowA, RowB, RowC, RowD}

\* sorted() order of the category labels (Python compares str by code point)
LabelOrder == <<"ALLEY", "BATTERY", "STREET", "THEFT">>

SeqsUpTo(S, n) == UNION {[1..k -> S] : k \in 0..n}

\* block repeated reps times: row i of the result is row ((i-1) mod Len) + 1
Repeat(block, reps) ==
  [i \in 1..(Len(block) * reps) |-> block[((i - 1) % Len(block)) + 1]]

\* Primary Type (THEFT, THEFT, BATTERY) with Arrest (true, false, true)
ExampleRows == <<RowA, RowB, RowC>>

\* the block of the long dataset: three rows with coordinates, one without
BigBlock == <<RowA, RowA, RowB, RowD>>

(***************************************************************************)
(* load_data, lines 15-27.                                                 *)
(***************************************************************************)
\* pd.to_numeric(errors='coerce') on one cell
ToNumeric(s) ==
  CASE s = "2001" -> 2001
    [] s = "2002" -> 2002
    [] OTHER -> NaNNum

\* dtype read_csv infers for the Arrest column: bool when every cell is a boolean
InferArrestDtype(raw) ==
  IF Len(raw) > 0 /\ \A i \in 1..Len(raw) : raw[i].Arrest \in {True, False}
  THEN "bool" ELSE "object"

\* read_csv gives the rows a RangeIndex 0..n-1; Year is made numeric when present
load_data(columns, raw) ==
  [columns |-> columns,
   ArrestDtype |-> InferArrestDtype(raw),
   rows |-> [i \in 1..Len(raw) |->
               [idx |-> i - 1,
                Year |-> IF "Year" \in columns THEN ToNumeric(raw[i].Year) ELSE NaNNum,
                PrimaryType |-> raw[i].PrimaryType,
                LocationDescription |-> raw[i].LocationDescription,
                Arrest |-> raw[i].Arrest,
                Latitude |-> raw[i].Latitude,
                Longitude |-> raw[i].Longitude]]]

\* the dataset.csv files the model loads
Datasets ==
  {load_data(AllColumns, raw) : raw \in SeqsUpTo(RowPool, MaxRows)}
  \cup {load_data(AllColumns \ {c}, raw) :
          c \in AllColumns, raw \in SeqsUpTo(RowPool, MaxRowsAbsent)}
  \cup {load_data(AllColumns, ExampleRows)}
  \cup {load_data(AllColumns, Repeat(BigBlock, BigReps))}
  \cup {load_data(AllColumns \ {"Date"}, Repeat(<<RowA, RowA>>, BigReps))}

(***************************************************************************)
(* Program constants.                                                      *)
(***************************************************************************)
\* st.slider("Maximum points to display", 100, min(1000, len(map_df)), 500)
SliderMin == 100
SliderCap == 1000
SliderDefault == 500
\* .head(15) of the frequency and arrest-rate charts
TopN == 15

arrest_options == <<"All", "Yes", "No">>
viz_options ==
  <<"Crime Type Distribution", "Crimes by Year",
    "Location Description Distribution", "Arrest Rate by Crime Type">>

VARIABLES
  df,                     \* the cached table load_data returned
  status,                 \* "loaded" before the first run, then "ok" or "exception"
  error,                  \* the exception that ended the last run, NoError if none
  years, crime_types, location_descriptions,   \* options of the three multiselects
  selected_years, selected_crime_types, selected_locations,
  selected_arrest, viz_type, max_points,       \* what the widgets returned
  rendered,               \* the widgets the last run put on the page
  slider_max,             \* upper bound of the slider the last run rendered
  filtered_df,            \* the filtered copy of df
  metrics,                \* label -> value of the st.metric calls that ran
  preview,                \* the "Showing n rows (out of m total)" line of tab1
  chart,                  \* what tab2 shows
  map_df, map_df_sample,  \* coordinate-valid rows, and the rows handed to the map
  map_status              \* "none", "plotted" or "warning"

vars ==
  <<df, status, error, years, crime_types, location_descriptions,
    selected_years, selected_crime_types, selected_locations,
    selected_arrest, viz_type, max_points, rendered, slider_max,
    filtered_df, metrics, preview, chart, map_df, map_df_sample, map_status>>

Range(s) == {s[i] : i \in 1..Len(s)}

\* the distinct non-null values of one column: Series.dropna().unique()
DropNaUnique(rows, column, nan) == {rows[i][column] : i \in 1..Len(rows)} \ {nan}
Min(a, b) == IF a <= b THEN a ELSE b

\* values shown on the page: a number or a text
Num(n) == [int |-> n]
Text(s) == [str |-> s]

NoError == [type |-> "none", line |-> 0]
Raised(type, line) == [type |-> type, line |-> line]

(***************************************************************************)
(* Sidebar, lines 36-66.                                                   *)
(***************************************************************************)
\* sorted(...) of a set of numbers
SortedNumbers(S) ==
  CHOOSE s \in [1..Cardinality(S) -> S] :
    \A i, j \in 1..Cardinality(S) : i < j => s[i] < s[j]

\* sorted(...) of a set of labels
SortedLabels(S) == SelectSeq(LabelOrder, LAMBDA x : x \in S)

\* sorted(df['Year'].dropna().unique())
YearOptions(t) == SortedNumbers(DropNaUnique(t.rows, "Year", NaNNum))
\* sorted(df['Primary Type'].dropna().unique())
CrimeTypeOptions(t) == SortedLabels(DropNaUnique(t.rows, "PrimaryType", NaN))
\* sorted(df['Location Description'].dropna().unique())
LocationOptions(t) == SortedLabels(DropNaUnique(t.rows, "LocationDescription", NaN))

\* df['Year'], df['Primary Type'], df['Location Description'] are read unguarded
SidebarError(t) ==
  IF "Year" \notin t.columns THEN Raised("KeyError", 37)
  ELSE IF "Primary Type" \notin t.columns THEN Raised("KeyError", 45)
  ELSE IF "Location Description" \notin t.columns THEN Raised("KeyError", 53)
  ELSE NoError

(***************************************************************************)
(* Apply filters, lines 68-82.  Each step maps a table to a table.         *)
(***************************************************************************)
\* mutant: an empty selection matches nothing
FilterYearsEmptyMatchesNothing(t, sel) ==
  IF "Year" \in t.columns
  THEN [t EXCEPT !.rows = SelectSeq(@, LAMBDA r : r.Year \in sel)]
  ELSE t

FilterYears(t, sel) ==
  IF sel # {} /\ "Year" \in t.columns
  THEN [t EXCEPT !.rows = SelectSeq(@, LAMBDA r : r.Year \in sel)]
  ELSE t

\* mutant: rows without a primary type slip through the filter
FilterCrimeTypesKeepsNull(t, sel) ==
  IF sel # {} /\ "Primary Type" \in t.columns
  THEN [t EXCEPT !.rows =
          SelectSeq(@, LAMBDA r : r.PrimaryType \in sel \/ r.PrimaryType = NaN)]
  ELSE t

FilterCrimeTypes(t, sel) ==
  IF sel # {} /\ "Primary Type" \in t.columns
  THEN [t EXCEPT !.rows = SelectSeq(@, LAMBDA r : r.PrimaryType \in sel)]
  ELSE t

FilterLocations(t, sel) ==
  IF sel # {} /\ "Location Description" \in t.columns
  THEN [t EXCEPT !.rows = SelectSeq(@, LAMBDA r : r.LocationDescription \in sel)]
  ELSE t

\* mutant: the arrest filter starts again from df instead of narrowing filtered_df
FilterArrestOfSource(t, sel) ==
  IF sel # "All" /\ "Arrest" \in t.columns
  THEN LET arrest_bool == IF sel = "Yes" THEN True ELSE False
       IN [t EXCEPT !.rows = SelectSeq(df.rows, LAMBDA r : r.Arrest = arrest_bool)]
  ELSE t

FilterArrest(t, sel) ==
  IF sel # "All" /\ "Arrest" \in t.columns
  THEN LET arrest_bool == IF sel = "Yes" THEN True ELSE False
       IN [t EXCEPT !.rows = SelectSeq(@, LAMBDA r : r.Arrest = arrest_bool)]
  ELSE t

ApplyFilters(t, sy, sc, sl, sa) ==
  FilterArrest(FilterLocations(FilterCrimeTypes(FilterYears(t, sy), sc), sl), sa)

(***************************************************************************)
(* Summary statistics, lines 84-109.                                       *)
(***************************************************************************)
\* filtered_df['Arrest'].sum() on a bool column: True counts 1, False counts 0
SumBool(rows) == Len(SelectSeq(rows, LAMBDA r : r.Arrest # False))
\* (filtered_df['Arrest'] == True).sum()
SumEqTrue(rows) == Len(SelectSeq(rows, LAMBDA r : r.Arrest = True))

\* mutant: counts the non-null cells (Series.count()) instead of the true ones
arrest_count_notnull(f) == Len(SelectSeq(f.rows, LAMBDA r : r.Arrest # NaN))

\* line 92
arrest_count(f) ==
  IF f.ArrestDtype = "bool" THEN SumBool(f.rows) ELSE SumEqTrue(f.rows)

\* lines 91-95
ArrestsMadeMetric(f) ==
  IF "Arrest" \in f.columns THEN Num(arrest_count(f)) ELSE Text("N/A")

\* filtered_df['Primary Type'].nunique(), lines 98-102
CrimeTypesMetric(f) ==
  IF "Primary Type" \in f.columns
  THEN Num(Cardinality(DropNaUnique(f.rows, "PrimaryType", NaN)))
  ELSE Text("N/A")

\* the non-null values of filtered_df['Year']
YearValues(f) == DropNaUnique(f.rows, "Year", NaNNum)
\* Series.min() and Series.max() skip NaN and give NaN when nothing is left
SeriesMin(S) == IF S = {} THEN NaNNum ELSE CHOOSE m \in S : \A x \in S : m <= x
SeriesMax(S) == IF S = {} THEN NaNNum ELSE CHOOSE m \in S : \A x \in S : x <= m

\* int(nan) raises ValueError: line 106 is reached whenever the column exists
YearRangeError(f) ==
  IF "Year" \in f.columns /\ YearValues(f) = {}
  THEN Raised("ValueError", 106) ELSE NoError

\* lines 105-109, when line 106 does not raise
YearRangeMetric(f) ==
  IF "Year" \in f.columns
  THEN Text(ToString(SeriesMin(YearValues(f))) \o "-" \o ToString(SeriesMax(YearValues(f))))
  ELSE Text("N/A")

\* mutant: the metrics are computed from df instead of filtered_df
MetricsOfWholeTable(f) ==
  LET first == [l \in {"Total Incidents", "Arrests Made", "Crime Types"} |->
                  CASE l = "Total Incidents" -> Num(Len(df.rows))
                    [] l = "Arrests Made" -> ArrestsMadeMetric(df)
                    [] l = "Crime Types" -> CrimeTypesMetric(df)]
  IN IF YearRangeError(f) # NoError THEN first
     ELSE [l \in DOMAIN first \cup {"Year Range"} |->
             IF l = "Year Range" THEN YearRangeMetric(df) ELSE first[l]]

\* the st.metric calls in page order; the run stops at the one that raises
Metrics(f) ==
  LET first == [l \in {"Total Incidents", "Arrests Made", "Crime Types"} |->
                  CASE l = "Total Incidents" -> Num(Len(f.rows))
                    [] l = "Arrests Made" -> ArrestsMadeMetric(f)
                    [] l = "Crime Types" -> CrimeTypesMetric(f)]
  IN IF YearRangeError(f) # NoError THEN first
     ELSE [l \in DOMAIN first \cup {"Year Range"} |->
             IF l = "Year Range" THEN YearRangeMetric(f) ELSE first[l]]

(***************************************************************************)
(* Visualizations, lines 127-192.                                          *)
(***************************************************************************)
\* .head(n)
head(s, n) == SubSeq(s, 1, Min(n, Len(s)))

\* the arrangements of the set E as a sequence
Arrangements(E) ==
  {s \in [1..Cardinality(E) -> E] : \A i, j \in 1..Cardinality(E) : i # j => s[i] # s[j]}

\* value_counts() sorts by count with sort_values(ascending=False) and its default
\* kind='quicksort', which is not a stable sort: every descending arrangement of
\* the entries can come out
SortCountsDescending(E) ==
  {s \in Arrangements(E) : \A i, j \in 1..Len(s) : i < j => s[i].count >= s[j].count}

\* Series.value_counts(): one entry per non-null value, descending by count
PrimaryTypeCounts(f) ==
  SortCountsDescending(
    {[key |-> k, count |-> Len(SelectSeq(f.rows, LAMBDA r : r.PrimaryType = k))] :
       k \in DropNaUnique(f.rows, "PrimaryType", NaN)})

LocationCounts(f) ==
  SortCountsDescending(
    {[key |-> k, count |-> Len(SelectSeq(f.rows, LAMBDA r : r.LocationDescription = k))] :
       k \in DropNaUnique(f.rows, "LocationDescription", NaN)})

\* filtered_df['Year'].value_counts().sort_index(): ascending by year
YearCounts(f) ==
  LET ys == SortedNumbers(YearValues(f))
  IN [i \in 1..Len(ys) |->
        [key |-> ys[i], count |-> Len(SelectSeq(f.rows, LAMBDA r : r.Year = ys[i]))]]

\* the lambda of line 181 on one group x: a rate num/den (exact, in percent)
GroupArrestRate(x) ==
  IF Len(x) > 0
  THEN [num |-> Len(SelectSeq(x, LAMBDA r : r.Arrest = True)) * 100, den |-> Len(x)]
  ELSE [num |-> 0, den |-> 1]

\* groupby('Primary Type')['Arrest'].apply(...): one entry per non-null key
GroupRates(f) ==
  {[key |-> k,
    rate |-> GroupArrestRate(SelectSeq(f.rows, LAMBDA r : r.PrimaryType = k))] :
     k \in DropNaUnique(f.rows, "PrimaryType", NaN)}

RateGeq(a, b) == a.rate.num * b.rate.den >= b.rate.num * a.rate.den

\* sort_values(ascending=False) of line 182, default kind='quicksort' (not stable):
\* every arrangement of the entries that is descending by rate can come out
SortRatesDescending(E) ==
  {s \in Arrangements(E) : \A i, j \in 1..Len(s) : i < j => RateGeq(s[i], s[j])}

\* lines 180-182
arrest_rates(f) == {head(s, TopN) : s \in SortRatesDescending(GroupRates(f))}

\* what tab2 can show for the chosen visualization
Charts(f, viz) ==
  CASE viz = "Crime Type Distribution" ->
         IF "Primary Type" \in f.columns
         THEN {[kind |-> "barh", of |-> viz, data |-> head(s, TopN)] :
                 s \in PrimaryTypeCounts(f)}
         ELSE {[kind |-> "warning", text |-> "Primary Type column not available"]}
    [] viz = "Crimes by Year" ->
         IF "Year" \in f.columns
         THEN {[kind |-> "line", of |-> viz, data |-> YearCounts(f)]}
         ELSE {[kind |-> "warning", text |-> "Year column not available"]}
    [] viz = "Location Description Distribution" ->
         IF "Location Description" \in f.columns
         THEN {[kind |-> "barh", of |-> viz, data |-> head(s, TopN)] :
                 s \in LocationCounts(f)}
         ELSE {[kind |-> "warning", text |-> "Location Description column not available"]}
    [] viz = "Arrest Rate by Crime Type" ->
         IF "Primary Type" \in f.columns /\ "Arrest" \in f.columns
         THEN {[kind |-> "barh", of |-> viz, data |-> s] : s \in arrest_rates(f)}
         ELSE {[kind |-> "warning",
                text |-> "Required columns (Primary Type, Arrest) not available"]}

NoChart == [kind |-> "none"]

(***************************************************************************)
(* Map View, lines 194-227.                                                *)
(***************************************************************************)
\* filtered_df.dropna(subset=['Latitude', 'Longitude'])
DropNaCoordinates(f) ==
  SelectSeq(f.rows, LAMBDA r : r.Latitude # NaNNum /\ r.Longitude # NaNNum)

\* upper bound handed to st.slider
SliderUpper(n) == Min(SliderCap, n)

\* st.slider raises StreamlitAPIException unless min_value <= value <= max_value
SliderAccepts(lo, hi, value) == lo <= value /\ value <= hi

\* the exception that ends tab3, NoError if none
MapError(f) ==
  IF ~ {"Latitude", "Longitude"} \subseteq f.columns THEN Raised("KeyError", 198)
  ELSE IF Len(DropNaCoordinates(f)) = 0 THEN NoError
  ELSE IF ~ SliderAccepts(SliderMin, SliderUpper(Len(DropNaCoordinates(f))), SliderDefault)
       THEN Raised("StreamlitAPIException", 204)
  ELSE IF "Date" \notin f.columns THEN Raised("ValueError", 208)
  ELSE NoError

(***************************************************************************)
(* One run of the script, top to bottom, with the values the widgets hold. *)
(* An uncaught exception ends the run: what was put on the page before it  *)
(* stays, nothing after it is produced.  A widget the run did not reach is *)
(* dropped from the session and comes back with its default.               *)
(***************************************************************************)
\* the first exception of the run, in line order
RunError(t, f) ==
  IF SidebarError(t) # NoError THEN SidebarError(t)
  ELSE IF YearRangeError(f) # NoError THEN YearRangeError(f)
  ELSE MapError(f)

\* TRUE when the run gets past the given line
Passes(e, line) == e = NoError \/ e.line > line

\* the value the slider returns: the session's value when the same slider
\* (same bounds) was on the page in the previous run, its default otherwise
SliderValue(hi, mp, prev) ==
  IF "slider" \in prev.rendered /\ prev.slider_max = hi THEN mp ELSE SliderDefault

\* The pages a run can produce from table t with the widgets holding sy, sc, sl,
\* sa, vz, mp; prev is what the session keeps of the previous run's widgets.
\* More than one page is possible only through the order of tied chart entries.
Script(t, sy, sc, sl, sa, vz, mp, prev) ==
  LET f == ApplyFilters(t, sy, sc, sl, sa)
      e == RunError(t, f)
      m == DropNaCoordinates(f)
      hi == SliderUpper(Len(m))
      slider_on == Passes(e, 204) /\ Len(m) > 0
      value == SliderValue(hi, mp, prev)
      page ==
        [error |-> e,
         status |-> IF e = NoError THEN "ok" ELSE "exception",
         years |-> IF Passes(e, 37) THEN YearOptions(t) ELSE <<>>,
         crime_types |-> IF Passes(e, 45) THEN CrimeTypeOptions(t) ELSE <<>>,
         location_descriptions |-> IF Passes(e, 53) THEN LocationOptions(t) ELSE <<>>,
         selected_years |-> IF Passes(e, 37) THEN sy ELSE {},
         selected_crime_types |-> IF Passes(e, 45) THEN sc ELSE {},
         selected_locations |-> IF Passes(e, 53) THEN sl ELSE {},
         selected_arrest |-> IF Passes(e, 53) THEN sa ELSE arrest_options[1],
         filtered_df |-> IF Passes(e, 82) THEN f ELSE [f EXCEPT !.rows = <<>>],
         metrics |-> IF Passes(e, 82) THEN Metrics(f) ELSE << >>,
         preview |-> IF Passes(e, 118)
                     THEN [showing |-> Len(f.rows), total |-> Len(t.rows)]
                     ELSE [showing |-> 0, total |-> 0],
         viz_type |-> IF Passes(e, 131) THEN vz ELSE viz_options[1],
         map_df |-> IF Passes(e, 198) THEN m ELSE <<>>,
         max_points |-> IF slider_on THEN value ELSE SliderDefault,
         slider_max |-> IF slider_on THEN hi ELSE 0,
         map_df_sample |-> IF slider_on THEN head(m, value) ELSE <<>>,
         map_status |-> IF Passes(e, 208) /\ Len(m) > 0 THEN "plotted"
                        ELSE IF Passes(e, 198) /\ Len(m) = 0 THEN "warning"
                        ELSE "none",
         rendered |->
           (IF Passes(e, 37) THEN {"years"} ELSE {})
           \cup (IF Passes(e, 45) THEN {"crime_types"} ELSE {})
           \cup (IF Passes(e, 53) THEN {"locations", "arrest"} ELSE {})
           \cup (IF Passes(e, 131) THEN {"viz"} ELSE {})
           \cup (IF slider_on THEN {"slider"} ELSE {})]
  IN {[chart |-> c, page |-> page] :
        c \in IF Passes(e, 131) THEN Charts(f, vz) ELSE {NoChart}}

\* the previous run's widgets, as the session keeps them
Session == [rendered |-> rendered, slider_max |-> slider_max]

\* one run: the cached table is read, never written
Rerun(sy, sc, sl, sa, vz, mp) ==
  \E out \in Script(df, sy, sc, sl, sa, vz, mp, Session) :
    /\ df' = df
    /\ error' = out.page.error
    /\ status' = out.page.status
    /\ years' = out.page.years
    /\ crime_types' = out.page.crime_types
    /\ location_descriptions' = out.page.location_descriptions
    /\ selected_years' = out.page.selected_years
    /\ selected_crime_types' = out.page.selected_crime_types
    /\ selected_locations' = out.page.selected_locations
    /\ selected_arrest' = out.page.selected_arrest
    /\ filtered_df' = out.page.filtered_df
    /\ metrics' = out.page.metrics
    /\ preview' = out.page.preview
    /\ viz_type' = out.page.viz_type
    /\ chart' = out.chart
    /\ map_df' = out.page.map_df
    /\ max_points' = out.page.max_points
    /\ slider_max' = out.page.slider_max
    /\ map_df_sample' = out.page.map_df_sample
    /\ map_status' = out.page.map_status
    /\ rendered' = out.page.rendered

(***************************************************************************)
(* The process: load_data once, then one run per interaction.              *)
(***************************************************************************)
Init ==
  /\ df \in Datasets
  /\ status = "loaded"
  /\ error = NoError
  /\ years = <<>> /\ crime_types = <<>> /\ location_descriptions = <<>>
  /\ selected_years = {} /\ selected_crime_types = {} /\ selected_locations = {}
  /\ selected_arrest = arrest_options[1]
  /\ viz_type = viz_options[1]
  /\ max_points = SliderDefault
  /\ rendered = {}
  /\ slider_max = 0
  /\ filtered_df = [df EXCEPT !.rows = <<>>]
  /\ metrics = << >>
  /\ preview = [showing |-> 0, total |-> 0]
  /\ chart = NoChart
  /\ map_df = <<>> /\ map_df_sample = <<>>
  /\ map_status = "none"

\* the run a new session starts with: every widget at its default
FirstRun ==
  /\ status = "loaded"
  /\ Rerun({}, {}, {}, arrest_options[1], viz_options[1], SliderDefault)

\* adding an option to, or removing it from, a multiselect
Toggle(S, x) == IF x \in S THEN S \ {x} ELSE S \cup {x}

SelectYears ==
  /\ "years" \in rendered
  /\ \E y \in Range(years) :
       Rerun(Toggle(selected_years, y), selected_crime_types, selected_locations,
             selected_arrest, viz_type, max_points)

SelectCrimeTypes ==
  /\ "crime_types" \in rendered
  /\ \E c \in Range(crime_types) :
       Rerun(selected_years, Toggle(selected_crime_types, c), selected_locations,
             selected_arrest, viz_type, max_points)

SelectLocations ==
  /\ "locations" \in rendered
  /\ \E l \in Range(location_descriptions) :
       Rerun(selected_years, selected_crime_types, Toggle(selected_locations, l),
             selected_arrest, viz_type, max_points)

SelectArrest ==
  /\ "arrest" \in rendered
  /\ \E a \in Range(arrest_options) \ {selected_arrest} :
       Rerun(selected_years, selected_crime_types, selected_locations,
             a, viz_type, max_points)

SelectViz ==
  /\ "viz" \in rendered
  /\ \E v \in Range(viz_options) \ {viz_type} :
       Rerun(selected_years, selected_crime_types, selected_locations,
             selected_arrest, v, max_points)

\* positions the slider is moved to
SliderStops == {SliderMin, SliderDefault, SliderCap}

MoveSlider ==
  /\ "slider" \in rendered
  /\ \E v \in SliderStops \ {max_points} :
       /\ SliderMin <= v /\ v <= slider_max
       /\ Rerun(selected_years, selected_crime_types, selected_locations,
                selected_arrest, viz_type, v)

Next ==
  \/ FirstRun
  \/ SelectYears
  \/ SelectCrimeTypes
  \/ SelectLocations
  \/ SelectArrest
  \/ SelectViz
  \/ MoveSlider

Spec == Init /\ [][Next]_vars

(***************************************************************************)
(* Vocabulary of the properties.                                           *)
(***************************************************************************)
\* the last run got past the filter block (line 82)
FilterRan == status # "loaded" /\ Passes(error, 82)
\* the last run got as far as the map's dropna (line 198)
MapReached == status # "loaded" /\ Passes(error, 198)

Dimensions == {"year", "primary_type", "location_description", "arrest"}

\* the column a dimension reads
ColumnOf(d) ==
  CASE d = "year" -> "Year"
    [] d = "primary_type" -> "Primary Type"
    [] d = "location_description" -> "Location Description"
    [] d = "arrest" -> "Arrest"

\* the current selection leaves dimension d open
Open(d) ==
  CASE d = "year" -> selected_years = {}
    [] d = "primary_type" -> selected_crime_types = {}
    [] d = "location_description" -> selected_locations = {}
    [] d = "arrest" -> selected_arrest = "All"

\* row r has the value the current selection asks for in dimension d
Satisfies(r, d) ==
  CASE d = "year" -> r.Year # NaNNum /\ r.Year \in selected_years
    [] d = "primary_type" -> r.PrimaryType # NaN /\ r.PrimaryType \in selected_crime_types
    [] d = "location_description" ->
         r.LocationDescription # NaN /\ r.LocationDescription \in selected_locations
    [] d = "arrest" ->
         (selected_arrest = "Yes" /\ r.Arrest = True)
         \/ (selected_arrest = "No" /\ r.Arrest = False)

\* dimensions the current selection restricts (an absent column is never filtered)
Restricted == {d \in Dimensions : ~ Open(d) /\ ColumnOf(d) \in df.columns}

\* index labels of a sequence of rows
Labels(rows) == {rows[i].idx : i \in 1..Len(rows)}

(***************************************************************************)
(* C1.  Applying the four dimension filters in any of the 24 orders gives  *)
(* the same rows, in the same order, as the code's order (year, primary    *)
(* type, location description, arrest).                                    *)
(***************************************************************************)
FilterStep(d, t) ==
  CASE d = "year" -> FilterYears(t, selected_years)
    [] d = "primary_type" -> FilterCrimeTypes(t, selected_crime_types)
    [] d = "location_description" -> FilterLocations(t, selected_locations)
    [] d = "arrest" -> FilterArrest(t, selected_arrest)

FilterOrders ==
  {o \in [1..4 -> Dimensions] : \A i, j \in 1..4 : i # j => o[i] # o[j]}

ApplyInOrder(o, t) ==
  FilterStep(o[4], FilterStep(o[3], FilterStep(o[2], FilterStep(o[1], t))))

C1_OrderIndependent ==
  FilterRan => \A o \in FilterOrders : ApplyInOrder(o, df) = filtered_df

\* three dimensions restricted, each dropping rows, some row surviving
C1_Witness ==
  /\ FilterRan
  /\ selected_years # {} /\ selected_crime_types # {} /\ selected_arrest # "All"
  /\ Len(filtered_df.rows) > 0
  /\ Len(filtered_df.rows) < Len(FilterYears(df, selected_years).rows)
  /\ Len(filtered_df.rows) < Len(FilterCrimeTypes(df, selected_crime_types).rows)
  /\ Len(filtered_df.rows) < Len(FilterArrest(df, selected_arrest).rows)

(***************************************************************************)
(* C2.  A dimension with an empty selection (or arrest = 'All') restricts  *)
(* nothing: every row that passes the other dimensions is kept, whatever   *)
(* it holds in that dimension, null included; with all four dimensions     *)
(* open the filtered subset is the whole table.                            *)
(***************************************************************************)
C2_EmptySelectionOpen ==
  FilterRan =>
    /\ (\A d \in Dimensions : Open(d)) => filtered_df.rows = df.rows
    /\ LET kept == Labels(filtered_df.rows)
       IN \A d \in Dimensions :
            Open(d) =>
              \A i \in 1..Len(df.rows) :
                (\A d2 \in Restricted \ {d} : Satisfies(df.rows[i], d2))
                  => df.rows[i].idx \in kept

\* year left open while locations are restricted, and a row without a year is kept
C2_Witness ==
  /\ FilterRan
  /\ selected_years = {} /\ selected_locations # {}
  /\ \E i \in 1..Len(filtered_df.rows) : filtered_df.rows[i].Year = NaNNum
  /\ Len(filtered_df.rows) < Len(df.rows)

(***************************************************************************)
(* C3.  The filtered subset is exactly the rows of the table that satisfy  *)
(* every restricted dimension at once, in table order; a row that is null  *)
(* in a restricted dimension is dropped; the subset is never longer than   *)
(* the table.                                                              *)
(***************************************************************************)
C3_ExactSubset ==
  FilterRan =>
    /\ filtered_df.rows =
         SelectSeq(df.rows, LAMBDA r : \A d \in Restricted : Satisfies(r, d))
    /\ \A i \in 1..Len(filtered_df.rows) :
         /\ "year" \in Restricted => filtered_df.rows[i].Year # NaNNum
         /\ "primary_type" \in Restricted => filtered_df.rows[i].PrimaryType # NaN
         /\ "location_description" \in Restricted =>
              filtered_df.rows[i].LocationDescription # NaN
         /\ "arrest" \in Restricted => filtered_df.rows[i].Arrest # NaN
    /\ Len(filtered_df.rows) <= Len(df.rows)

\* primary type and arrest restricted on a table with a row that is null in both
C3_Witness ==
  /\ FilterRan
  /\ {"primary_type", "arrest"} \subseteq Restricted
  /\ \E i \in 1..Len(df.rows) :
       df.rows[i].PrimaryType = NaN /\ df.rows[i].Arrest = NaN
  /\ Len(filtered_df.rows) > 0
  /\ Len(filtered_df.rows) < Len(df.rows)

(***************************************************************************)
(* C4.  A table that lacks one of the expected columns still gets a full   *)
(* run without an exception: the control of the absent column offers no    *)
(* options, its metric reads 'N/A', its chart or the map shows a warning.  *)
(***************************************************************************)
ExpectedColumns ==
  {"Year", "Primary Type", "Location Description", "Arrest",
   "Latitude", "Longitude", "Date"}

C4_AbsentColumnHandled ==
  (status # "loaded" /\ ~ ExpectedColumns \subseteq df.columns) =>
    /\ error = NoError
    /\ "Year" \notin df.columns =>
         /\ years = <<>>
         /\ metrics["Year Range"] = Text("N/A")
         /\ viz_type = "Crimes by Year" => chart.kind = "warning"
    /\ "Arrest" \notin df.columns => metrics["Arrests Made"] = Text("N/A")
    /\ ~ {"Latitude", "Longitude"} \subseteq df.columns => map_status = "warning"

(***************************************************************************)
(* C5.  When the filtered subset is empty, or holds no row with a year,    *)
(* the run still completes: total count as counted, year range 'N/A', and  *)
(* for the empty subset the map warning.                                   *)
(***************************************************************************)
C5_EmptySubsetRenders ==
  (FilterRan /\ YearValues(filtered_df) = {}) =>
    /\ error = NoError
    /\ metrics["Total Incidents"] = Num(Len(filtered_df.rows))
    /\ metrics["Year Range"] = Text("N/A")
    /\ Len(filtered_df.rows) = 0 => map_status = "warning"

(***************************************************************************)
(* C6.  'Arrests Made' is the number of rows of the filtered subset whose  *)
(* Arrest is true (false and null rows not counted, whatever the column's  *)
(* dtype) when the Arrest column exists, and 'N/A', never 0, when it does  *)
(* not.                                                                    *)
(***************************************************************************)
C6_ArrestsMadeExact ==
  "Arrests Made" \in DOMAIN metrics =>
    IF "Arrest" \in df.columns
    THEN metrics["Arrests Made"] =
           Num(Cardinality({i \in 1..Len(filtered_df.rows) :
                              filtered_df.rows[i].Arrest = True}))
    ELSE metrics["Arrests Made"] = Text("N/A") /\ metrics["Arrests Made"] # Num(0)

\* an object-dtype Arrest column: a true, a false and a null row in the subset
C6_Witness ==
  /\ "Arrests Made" \in DOMAIN metrics
  /\ "Arrest" \in df.columns
  /\ df.ArrestDtype = "object"
  /\ \A v \in {True, False, NaN} :
       \E i \in 1..Len(filtered_df.rows) : filtered_df.rows[i].Arrest = v

(***************************************************************************)
(* C7.  The arrest-rate chart holds one entry per non-null Primary Type of *)
(* the filtered subset, each 100 * (true rows of the group) / (rows of the *)
(* group), in [0, 100], no empty group, descending by rate, at most 15     *)
(* entries, entries of equal rate in their original (group) order.         *)
(***************************************************************************)
LabelPosition(k) == CHOOSE i \in 1..Len(LabelOrder) : LabelOrder[i] = k

RowsOfType(k) == SelectSeq(filtered_df.rows, LAMBDA r : r.PrimaryType = k)

\* the chart of the last run is the arrest-rate chart
ArrestRateShown == chart.kind = "barh" /\ chart.of = "Arrest Rate by Crime Type"

\* everything the claim says but the order of entries of equal rate
ArrestRatesUpToTies ==
  ArrestRateShown =>
    LET d == chart.data
        keys == DropNaUnique(filtered_df.rows, "PrimaryType", NaN)
    IN /\ Len(d) = Min(TopN, Cardinality(keys))
       /\ \A i \in 1..Len(d) :
            /\ d[i].key \in keys
            /\ Len(RowsOfType(d[i].key)) > 0
            /\ d[i].rate.num * Len(RowsOfType(d[i].key)) =
                 100 * Len(SelectSeq(RowsOfType(d[i].key), LAMBDA r : r.Arrest = True))
                     * d[i].rate.den
            /\ 0 <= d[i].rate.num /\ d[i].rate.num <= 100 * d[i].rate.den
       /\ \A i, j \in 1..Len(d) : i < j => RateGeq(d[i], d[j])

\* entries of equal rate stay in the order the groups had before the sort
TiesKeepGroupOrder ==
  ArrestRateShown =>
    \A i, j \in 1..Len(chart.data) :
      (i < j /\ RateGeq(chart.data[j], chart.data[i]))
        => LabelPosition(chart.data[i].key) < LabelPosition(chart.data[j].key)

C9_SliderRangeValid ==
  MapReached =>
    /\ Len(map_df) >= 1 =>
         /\ SliderMin <= SliderDefault
         /\ SliderDefault <= SliderUpper(Len(map_df))
         /\ "slider" \in rendered
         /\ slider_max = SliderUpper(Len(map_df))
         /\ SliderMin <= max_points /\ max_points <= slider_max
    /\ map_status = "warning" <=> Len(map_df) = 0

(***************************************************************************)
(* C10.  No interaction changes the loaded table, and after every run the  *)
(* filtered subset is the filter of the whole table under the current      *)
(* selection and every figure on the page is computed from that subset.    *)
(***************************************************************************)
PageOfCurrentSelection ==
  FilterRan =>
    /\ filtered_df.columns = df.columns
    /\ filtered_df.rows =
         SelectSeq(df.rows, LAMBDA r : \A d \in Restricted : Satisfies(r, d))
    /\ metrics["Total Incidents"] = Num(Len(filtered_df.rows))
    /\ "Arrest" \in df.columns =>
         metrics["Arrests Made"] =
           Num(Cardinality({i \in 1..Len(filtered_df.rows) :
                              filtered_df.rows[i].Arrest = True}))
    /\ metrics["Crime Types"] =
         Num(Cardinality(DropNaUnique(filtered_df.rows, "PrimaryType", NaN)))
    /\ "Year Range" \in DOMAIN metrics =>
         \E lo, hi \in YearValues(filtered_df) :
           /\ \A y \in YearValues(filtered_df) : lo <= y /\ y <= hi
           /\ metrics["Year Range"] = Text(ToString(lo) \o "-" \o ToString(hi))
    /\ Passes(error, 118) =>
         preview = [showing |-> Len(filtered_df.rows), total |-> Len(df.rows)]
    /\ chart.kind \in {"barh", "line"} =>
         \A i \in 1..Len(chart.data) :
           CASE chart.of = "Crime Type Distribution" ->
                  chart.data[i].count =
                    Len(SelectSeq(filtered_df.rows, LAMBDA r : r.PrimaryType = chart.data[i].key))
             [] chart.of = "Crimes by Year" ->
                  chart.data[i].count =
                    Len(SelectSeq(filtered_df.rows, LAMBDA r : r.Year = chart.data[i].key))
             [] chart.of = "Location Description Distribution" ->
                  chart.data[i].count =
                    Len(SelectSeq(filtered_df.rows,
                          LAMBDA r : r.LocationDescription = chart.data[i].key))
             [] chart.of = "Arrest Rate by Crime Type" ->
                  chart.data[i].rate.num * Len(RowsOfType(chart.data[i].key)) =
                    100 * Len(SelectSeq(RowsOfType(chart.data[i].key), LAMBDA r : r.Arrest = True))
                        * chart.data[i].rate.den
    /\ MapReached =>
         /\ map_df = SelectSeq(filtered_df.rows,
                               LAMBDA r : r.Latitude # NaNNum /\ r.Longitude # NaNNum)
         /\ Labels(map_df_sample) \subseteq Labels(map_df)

C10_TableFixedPageFresh == [][df' = df /\ PageOfCurrentSelection']_vars

\* a restricting selection reached after several interactions, with figures that
\* differ from those of the whole table
C10_Witness ==
  /\ status = "ok"
  /\ selected_years # {} /\ selected_arrest # "All"
  /\ viz_type = "Arrest Rate by Crime Type"
  /\ Len(filtered_df.rows) > 0
  /\ Len(filtered_df.rows) < Len(df.rows)
  /\ metrics["Arrests Made"] # ArrestsMadeMetric(df)
  /\ Len(chart.data) > 0

====
